---- MODULE Spec2Model ----
(***************************************************************************)
(* A model of pyexodus (src/pyexodus/core.py): the class `exodus`, which   *)
(* writes an Exodus II file through an h5netcdf container.                 *)
(*                                                                         *)
(* The container is the pair (dimensions, variables): `dimensions` maps a  *)
(* dimension name to its size and `variables` maps a variable name to the  *)
(* array stored under it.  A name built by Python string formatting, such  *)
(* as "connect%i" % idx, is the triple <<"connect", idx, 0>>; a plain name *)
(* is <<"eb_status", 0, 0>>.  Arrays are sequences, so Python's a[i] is    *)
(* a[i + 1] here.  Text is stored as it is in the file: one byte per       *)
(* cell, 0 being the fill byte of a fresh "|S1" array.                     *)
(***************************************************************************)
EXTENDS Integers, Sequences, FiniteSets, TLC

VARIABLES dimensions, variables, closed, outcome, call, closeCalls, pc, loop

vars == <<dimensions, variables, closed, outcome, call, closeCalls, pc, loop>>

(***************************************************************************)
(* Bounds of the model: the sizes of the files created and the number of   *)
(* calls counted.                                                          *)
(***************************************************************************)
MaxBlocks == 2
MaxSideSets == 2
MaxCloseCalls == 3
NumNodes == 4
NumElems == 3
MaxBackward == 3

(***************************************************************************)
(* Schema constants set by exodus.__init__.                                *)
(***************************************************************************)
LenString == 33
LenLine == 81
Four == 4
LenName == 33
TimeStep == 1

(***************************************************************************)
(* Names.                                                                  *)
(***************************************************************************)
N(s) == <<s, 0, 0>>
N1(s, i) == <<s, i, 0>>
N2(s, i, j) == <<s, i, j>>

(***************************************************************************)
(* Helpers on arrays.                                                      *)
(***************************************************************************)
Filled(n, v) == [i \in 1..n |-> v]
Zeros(n) == Filled(n, 0)
Zeros2(rows, cols) == [r \in 1..rows |-> Zeros(cols)]
Range(a) == {a[i] : i \in DOMAIN a}

\* (mutant of Contains: the membership test never finds the value)
Contains_never(a, x) == FALSE

\* Python's `x in a` on an array
Contains(a, x) == x \in Range(a)
Min(a, b) == IF a <= b THEN a ELSE b

\* m extended (or overwritten) at key k with value v
Put(m, k, v) == [x \in DOMAIN m \cup {k} |-> IF x = k THEN v ELSE m[x]]

(***************************************************************************)
(* The outcome of a call: the exception it raised, with the message of the *)
(* failing assert, or Ok.                                                  *)
(***************************************************************************)
Ok == [exc |-> "none", msg |-> ""]
Raise(e, m) == [exc |-> e, msg |-> m]
AssertionError(m) == Raise("AssertionError", m)

(***************************************************************************)
(* The record of the last call: the operation and its arguments.           *)
(***************************************************************************)
NoCall ==
  [op |-> "__init__", id |-> 0, numElems |-> 0, numNodesPerElem |-> 0,
   numAttrsPerElem |-> 0, numSetSides |-> 0, numSetDistFacts |-> 0,
   index |-> 0, step |-> 0, number |-> 0, value |-> 0,
   name |-> <<>>, values |-> <<>>, connectivity |-> <<>>,
   shift_indices |-> 0, chunk_bytes |-> 0, itemsize |-> 0,
   sideSetElements |-> <<>>, sideSetSides |-> <<>>]

Call(op, args) ==
  [f \in DOMAIN NoCall |->
     IF f = "op" THEN op
     ELSE IF f \in DOMAIN args THEN args[f] ELSE NoCall[f]]

(***************************************************************************)
(* Loop state of put_elem_connectivity outside the chunk loop.             *)
(***************************************************************************)
NoLoop == [idx |-> 0, chunk_size |-> 0, ne |-> 0, nn |-> 0, var_name |-> N("none"),
           written |-> <<>>, turn |-> 0]

(***************************************************************************)
(* exodus._create_variables: the variables every file contains.            *)
(***************************************************************************)
CoordAxes == {"x", "y", "z"}
CoordName(axis) == N(IF axis = "x" THEN "coordx"
                     ELSE IF axis = "y" THEN "coordy" ELSE "coordz")

SideSetVariables(dims) ==
  IF N("num_side_sets") \in DOMAIN dims
  THEN LET s == dims[N("num_side_sets")]
       IN  [k \in {N("ss_names"), N("ss_prop1"), N("ss_status")} |->
              IF k = N("ss_names") THEN Zeros2(s, dims[N("len_name")])
              ELSE IF k = N("ss_prop1") THEN Filled(s, -1)
              ELSE Zeros(s)]
  ELSE << >>

_create_variables(dims) ==
  LET base == {N("coor_names"), N("eb_names"), N("eb_prop1"), N("eb_status"),
               N("time_whole")} \cup {CoordName(i) : i \in CoordAxes}
      ss   == SideSetVariables(dims)
  IN  [k \in base \cup DOMAIN ss |->
         IF k \in DOMAIN ss THEN ss[k]
         ELSE IF k = N("coor_names")
           THEN Zeros2(dims[N("num_dim")], dims[N("len_name")])
         ELSE IF k = N("eb_names")
           THEN Zeros2(dims[N("num_el_blk")], dims[N("len_name")])
         ELSE IF k = N("eb_prop1") THEN Filled(dims[N("num_el_blk")], -1)
         ELSE IF k = N("eb_status") THEN Zeros(dims[N("num_el_blk")])
         ELSE IF k = N("time_whole") THEN Zeros(dims[N("time_step")])
         ELSE Zeros(dims[N("num_nodes")])]

(***************************************************************************)
(* exodus.__init__: the dimensions of a fresh file.                        *)
(***************************************************************************)
InitDimensions(numDims, numNodes, numElems, numBlocks, numSideSets) ==
  LET fixed == {N("len_string"), N("len_line"), N("four"), N("len_name"),
                N("time_step"), N("num_dim"), N("num_nodes"), N("num_elem"),
                N("num_el_blk")}
      names == IF numSideSets # 0 THEN fixed \cup {N("num_side_sets")} ELSE fixed
  IN  [k \in names |->
         IF k = N("len_string") THEN LenString
         ELSE IF k = N("len_line") THEN LenLine
         ELSE IF k = N("four") THEN Four
         ELSE IF k = N("len_name") THEN LenName
         ELSE IF k = N("time_step") THEN TimeStep
         ELSE IF k = N("num_dim") THEN numDims
         ELSE IF k = N("num_nodes") THEN numNodes
         ELSE IF k = N("num_elem") THEN numElems
         ELSE IF k = N("num_el_blk") THEN numBlocks
         ELSE numSideSets]

\* The state after exodus(file, "w", numDims=..., numNodes=..., numElems=...,
\* numBlocks=..., numNodeSets=0, numSideSets=...)
Created(numDims, numNodes, numElems, numBlocks, numSideSets) ==
  /\ dimensions = InitDimensions(numDims, numNodes, numElems, numBlocks, numSideSets)
  /\ variables = _create_variables(
                   InitDimensions(numDims, numNodes, numElems, numBlocks, numSideSets))
  /\ closed = FALSE
  /\ outcome = Ok
  /\ call = NoCall
  /\ closeCalls = 0
  /\ pc = "idle"
  /\ loop = NoLoop

\* A call that raises before it changed anything.
Fails(c, e) ==
  /\ call' = c
  /\ outcome' = e
  /\ UNCHANGED <<dimensions, variables, closed, closeCalls, pc, loop>>

\* A call that returns, leaving the container as (dims, vs).
Returns(c, dims, vs) ==
  /\ call' = c
  /\ outcome' = Ok
  /\ dimensions' = dims
  /\ variables' = vs
  /\ UNCHANGED <<closed, closeCalls, pc, loop>>

\* The handle is open and no call is in progress: the class is used by one
\* thread, and what the container does with a released handle is not modelled.
Ready == ~closed /\ pc = "idle"

(***************************************************************************)
(* exodus.put_elem_blk_info                                                *)
(***************************************************************************)
\* (mutant of FirstZero: the last zero entry instead of the first)
FirstZero_last(status) ==
  CHOOSE i \in 0..(Len(status) - 1) :
    /\ status[i + 1] = 0
    /\ \A j \in (i + 1)..(Len(status) - 1) : status[j + 1] # 0

\* np.argwhere(status == 0)[0][0]: the 0-based position of the first zero
FirstZero(status) ==
  CHOOSE i \in 0..(Len(status) - 1) :
    /\ status[i + 1] = 0
    /\ \A j \in 0..(i - 1) : status[j + 1] # 0

\* lines 196-211: the dimensions and the connectivity array of the slot, then
\* the status and the id
\* (eb_prop1[idx] = id: the id is stored one entry after the claimed slot)
ClaimBlock_prop_next(id, numElems, numNodesPerElem, idx) ==
  LET v1 == Put(variables, N1("connect", idx), Zeros2(numElems, numNodesPerElem))
      v2 == Put(v1, N("eb_status"), [v1[N("eb_status")] EXCEPT ![idx] = 1])
      prop == v2[N("eb_prop1")]
  IN  /\ dimensions' = Put(Put(dimensions, N1("num_el_in_blk", idx), numElems),
                           N1("num_nod_per_el", idx), numNodesPerElem)
      /\ variables' = Put(v2, N("eb_prop1"),
                          [i \in DOMAIN prop |-> IF i = idx + 1 THEN id ELSE prop[i]])

ClaimBlock(id, numElems, numNodesPerElem, idx) ==
  LET v1 == Put(variables, N1("connect", idx), Zeros2(numElems, numNodesPerElem))
      v2 == Put(v1, N("eb_status"), [v1[N("eb_status")] EXCEPT ![idx] = 1])
  IN  /\ dimensions' = Put(Put(dimensions, N1("num_el_in_blk", idx), numElems),
                           N1("num_nod_per_el", idx), numNodesPerElem)
      /\ variables' = Put(v2, N("eb_prop1"), [v2[N("eb_prop1")] EXCEPT ![idx] = id])

\* (mutant of put_elem_blk_info: the attribute count is checked after the
\* slot was claimed)
put_elem_blk_info_late_assert(id, numElems, numNodesPerElem, numAttrsPerElem) ==
  LET c == Call("put_elem_blk_info",
                [id |-> id, numElems |-> numElems,
                 numNodesPerElem |-> numNodesPerElem,
                 numAttrsPerElem |-> numAttrsPerElem])
      status == variables[N("eb_status")]
  IN
  /\ Ready
  /\ IF ~(numElems <= dimensions[N("num_elem")])
       THEN Fails(c, AssertionError(
              "Canont have more elements in the block then globally set."))
     ELSE IF ~Contains(status, 0)
       THEN Fails(c, AssertionError("All element blocks already set."))
     ELSE /\ ClaimBlock(id, numElems, numNodesPerElem, FirstZero(status) + 1)
          /\ call' = c
          /\ outcome' = IF numAttrsPerElem = 0 THEN Ok
                        ELSE AssertionError("Must be 0 for now.")
          /\ UNCHANGED <<closed, closeCalls, pc, loop>>

put_elem_blk_info(id, numElems, numNodesPerElem, numAttrsPerElem) ==
  LET c == Call("put_elem_blk_info",
                [id |-> id, numElems |-> numElems,
                 numNodesPerElem |-> numNodesPerElem,
                 numAttrsPerElem |-> numAttrsPerElem])
      status == variables[N("eb_status")]
  IN
  /\ Ready
  /\ IF ~(numElems <= dimensions[N("num_elem")])
       THEN Fails(c, AssertionError(
              "Canont have more elements in the block then globally set."))
     ELSE IF ~(numAttrsPerElem = 0)
       THEN Fails(c, AssertionError("Must be 0 for now."))
     ELSE IF ~Contains(status, 0)
       THEN Fails(c, AssertionError("All element blocks already set."))
     ELSE /\ ClaimBlock(id, numElems, numNodesPerElem, FirstZero(status) + 1)
          /\ call' = c
          /\ outcome' = Ok
          /\ UNCHANGED <<closed, closeCalls, pc, loop>>

(***************************************************************************)
(* exodus.put_elem_connectivity                                            *)
(*                                                                         *)
(* `connectivity` is the flat input array and `itemsize` the size of one   *)
(* of its entries (connectivity.dtype.itemsize).  The byte budget of a     *)
(* chunk is chunk_size_in_mb * 1024 ** 2, passed here as `chunk_bytes`.    *)
(***************************************************************************)
\* connectivity.reshape((ne, nn))
Reshape(flat, ne, nn) ==
  [r \in 1..ne |-> [c \in 1..nn |-> flat[(r - 1) * nn + c]]]

\* int(x / y) for y > 0: Python's int() truncates towards zero
IntDiv(x, y) == IF x >= 0 THEN x \div y ELSE -((-x) \div y)

\* int(chunk_size_in_mb * 1024 ** 2 / connectivity.dtype.itemsize / nn)
ChunkSize(chunk_bytes, itemsize, nn) == IntDiv(chunk_bytes, itemsize * nn)

\* slice.indices: a negative bound of a slice counts from the end of the
\* array, and every bound is clipped to 0..n
SliceBound(i, n) == IF i < 0 THEN (IF i + n < 0 THEN 0 ELSE i + n) ELSE Min(i, n)

\* the rows of Python's slice [idx : idx + chunk_size] of an array of ne rows
SliceRows(idx, chunk_size, ne) ==
  (SliceBound(idx, ne) + 1)..SliceBound(idx + chunk_size, ne)

\* target[idx : idx + chunk_size] = source[idx : idx + chunk_size] + shift
WriteChunk(target, source, idx, chunk_size, shift) ==
  [r \in DOMAIN target |->
     IF r \in SliceRows(idx, chunk_size, Len(target))
     THEN [c \in DOMAIN source[r] |-> source[r][c] + shift]
     ELSE target[r]]

\* (an array with more entries than the block holds is let through)
SizeMatches_at_least(connectivity, ne, nn) == Len(connectivity) >= ne * nn

\* assert connectivity.size == num_el * num_node_per_el
SizeMatches(connectivity, ne, nn) == Len(connectivity) = ne * nn

put_elem_connectivity(id, connectivity, shift_indices, chunk_bytes, itemsize) ==
  LET c == Call("put_elem_connectivity",
                [id |-> id, connectivity |-> connectivity,
                 shift_indices |-> shift_indices,
                 chunk_bytes |-> chunk_bytes, itemsize |-> itemsize])
      num_el_name == N1("num_el_in_blk", id)
      num_node_per_el_name == N1("num_nod_per_el", id)
      var_name == N1("connect", id)
  IN
  /\ Ready
  /\ IF ~(num_el_name \in DOMAIN dimensions)
       THEN Fails(c, AssertionError("Block id %i does not exist"))
     ELSE IF ~(num_node_per_el_name \in DOMAIN dimensions)
       THEN Fails(c, AssertionError("Block id %i does not exist"))
     ELSE IF ~SizeMatches(connectivity, dimensions[num_el_name],
                          dimensions[num_node_per_el_name])
       THEN Fails(c, AssertionError(""))
     ELSE IF shift_indices # 0
       THEN /\ call' = c
            /\ outcome' = Raise("pending", "")
            /\ pc' = "chunking"
            /\ loop' = [idx |-> 0,
                        chunk_size |-> ChunkSize(chunk_bytes, itemsize,
                                         dimensions[num_node_per_el_name]),
                        ne |-> dimensions[num_el_name],
                        nn |-> dimensions[num_node_per_el_name],
                        var_name |-> var_name,
                        written |-> Zeros(dimensions[num_el_name]),
                        turn |-> 0]
            /\ UNCHANGED <<dimensions, variables, closed, closeCalls>>
     ELSE Returns(c, dimensions,
                  Put(variables, var_name,
                      Reshape(connectivity, dimensions[num_el_name],
                              dimensions[num_node_per_el_name])))

\* One pass of `while idx < ne`: the body, or the exit of the loop.  A pass
\* of the body is a step of the program also when it writes an empty slice
\* and adds 0 to idx: turn (the parity of the passes made) records it.
\* With a negative chunk_size idx falls without end; the passes are followed
\* down to idx = -MaxBackward.
ChunkBody ==
  /\ pc = "chunking"
  /\ loop.idx < loop.ne
  /\ loop.idx + loop.chunk_size >= -MaxBackward
  /\ variables' =
       Put(variables, loop.var_name,
           WriteChunk(variables[loop.var_name],
                      Reshape(call.connectivity, loop.ne, loop.nn),
                      loop.idx, loop.chunk_size, call.shift_indices))
  /\ loop' = [loop EXCEPT
                !.idx = loop.idx + loop.chunk_size,
                !.turn = 1 - loop.turn,
                !.written = [r \in DOMAIN loop.written |->
                               IF r \in SliceRows(loop.idx, loop.chunk_size, loop.ne)
                               THEN loop.written[r] + 1 ELSE loop.written[r]]]
  /\ UNCHANGED <<dimensions, closed, outcome, call, closeCalls, pc>>

ChunkExit ==
  /\ pc = "chunking"
  /\ ~(loop.idx < loop.ne)
  /\ pc' = "idle"
  /\ outcome' = Ok
  /\ UNCHANGED <<dimensions, variables, closed, call, closeCalls, loop>>

(***************************************************************************)
(* exodus.put_time                                                         *)
(***************************************************************************)
StepMsg == "Step must be larger than 0."

\* (mutant of StepCheck: the upper bound of the step is not checked)
StepCheck_no_upper(step) == IF ~(step > 0) THEN AssertionError(StepMsg) ELSE Ok

\* assert step > 0, "Step must be larger than 0."
\* assert step <= self._f.dimensions["time_step"]
StepCheck(step) ==
  IF ~(step > 0) THEN AssertionError(StepMsg)
  ELSE IF ~(step <= dimensions[N("time_step")]) THEN AssertionError("")
  ELSE Ok

\* a[key] = v for a 1-d array (or a row of a 2-d array) at 0-based key
SetAt(a, key, v) == [a EXCEPT ![key + 1] = v]

put_time(step, value) ==
  LET c == Call("put_time", [step |-> step, value |-> value])
  IN
  /\ Ready
  /\ IF StepCheck(step) # Ok THEN Fails(c, StepCheck(step))
     ELSE Returns(c, dimensions,
                  Put(variables, N("time_whole"),
                      SetAt(variables[N("time_whole")], step - 1, value)))

(***************************************************************************)
(* Names: the fixed-width text rows of a name array.                       *)
(* A name is the sequence of the codes of its characters (ASCII), so that  *)
(* _i.encode() is one byte per character.                                  *)
(***************************************************************************)
\* bytes.strip() removes these from both ends
Whitespace == {9, 10, 11, 12, 13, 32}

\* b"".join(row): a cell holding the fill byte reads as b""
Join(row) == SelectSeq(row, LAMBDA b : b # 0)

RECURSIVE LStrip(_)
LStrip(s) == IF s # <<>> /\ Head(s) \in Whitespace THEN LStrip(Tail(s)) ELSE s

RECURSIVE RStrip(_)
RStrip(s) ==
  IF s # <<>> /\ s[Len(s)] \in Whitespace
  THEN RStrip(SubSeq(s, 1, Len(s) - 1)) ELSE s

Strip(s) == LStrip(RStrip(s))

\* [b"".join(_i).strip().decode() for _i in rows]
DecodeNames(rows) == [i \in DOMAIN rows |-> Strip(Join(rows[i]))]

\* (the 1-based index taken as the row: one row too far)
RowOf_next(key, n) == IF 0 <= key + 1 /\ key + 1 < n THEN key + 1 ELSE -1

\* The row a 0-based integer key selects in an array of n rows: a negative
\* key counts from the end, and -1 stands for a key out of range.
RowOf(key, n) ==
  LET k == IF key < 0 THEN n + key ELSE key
  IN  IF 0 <= k /\ k < n THEN k ELSE -1

\* rows[index - 1] = b"" ; rows[index - 1, :len(name)] = encoded name
WriteName(rows, key, name) ==
  [rows EXCEPT ![key + 1] =
     [j \in DOMAIN rows[key + 1] |-> IF j <= Len(name) THEN name[j] ELSE 0]]

\* shared body of put_global_variable_name and put_element_variable_name
PutName(c, var) ==
  IF ~(var \in DOMAIN variables) THEN Fails(c, Raise("KeyError", var[1]))
  ELSE IF RowOf(c.index - 1, Len(variables[var])) = -1
    THEN Fails(c, Raise("IndexError", "out of range"))
  ELSE Returns(c, dimensions,
               Put(variables, var,
                   WriteName(variables[var],
                             RowOf(c.index - 1, Len(variables[var])), c.name)))

\* list.index(name): the 0-based position of the first equal entry, -1 if none
ListIndex(names, name) ==
  IF \E i \in DOMAIN names : names[i] = name
  THEN (CHOOSE i \in DOMAIN names :
          names[i] = name /\ \A j \in 1..(i - 1) : names[j] # name) - 1
  ELSE -1

NotInList == Raise("ValueError", "is not in list")

(***************************************************************************)
(* Global variables.                                                       *)
(*                                                                         *)
(* Preconditions of the calls modelled, here and for the element and node  *)
(* catalogs: a catalog is declared once (the container refuses a dimension *)
(* declared twice), a name has at most len_name characters and the values  *)
(* passed have the length of the row written, so that the container's      *)
(* assignment does not fail.                                               *)
(***************************************************************************)
set_global_variable_number(number) ==
  LET c == Call("set_global_variable_number", [number |-> number])
  IN
  /\ Ready
  /\ N("num_glo_var") \notin DOMAIN dimensions
  /\ IF number = 0 THEN Returns(c, dimensions, variables)
     ELSE Returns(c, Put(dimensions, N("num_glo_var"), number),
                  Put(Put(variables, N("name_glo_var"),
                          Zeros2(number, dimensions[N("len_name")])),
                      N("vals_glo_var"),
                      Zeros2(dimensions[N("time_step")], number)))

put_global_variable_name(name, index) ==
  /\ Ready
  /\ Len(name) <= LenName
  /\ PutName(Call("put_global_variable_name", [name |-> name, index |-> index]),
             N("name_glo_var"))

get_global_variable_names == DecodeNames(variables[N("name_glo_var")])

put_global_variable_value(name, step, value) ==
  LET c == Call("put_global_variable_value",
                [name |-> name, step |-> step, value |-> value])
  IN
  /\ Ready
  /\ IF StepCheck(step) # Ok THEN Fails(c, StepCheck(step))
     ELSE IF N("name_glo_var") \notin DOMAIN variables
       THEN Fails(c, Raise("KeyError", "name_glo_var"))
     ELSE IF ListIndex(get_global_variable_names, name) = -1
       THEN Fails(c, NotInList)
     ELSE LET idx == ListIndex(get_global_variable_names, name)
              vals == variables[N("vals_glo_var")]
          IN  Returns(c, dimensions,
                      Put(variables, N("vals_glo_var"),
                          SetAt(vals, step - 1, SetAt(vals[step], idx, value))))

(***************************************************************************)
(* Element variables.                                                      *)
(***************************************************************************)
set_element_variable_number(number) ==
  LET c == Call("set_element_variable_number", [number |-> number])
  IN
  /\ Ready
  /\ N("num_elem_var") \notin DOMAIN dimensions
  /\ IF number = 0 THEN Returns(c, dimensions, variables)
     ELSE Returns(c, Put(dimensions, N("num_elem_var"), number),
                  Put(variables, N("name_elem_var"),
                      Zeros2(number, dimensions[N("len_name")])))

put_element_variable_name(name, index) ==
  /\ Ready
  /\ Len(name) <= LenName
  /\ PutName(Call("put_element_variable_name", [name |-> name, index |-> index]),
             N("name_elem_var"))

get_element_variable_names == DecodeNames(variables[N("name_elem_var")])

\* array[row] = values: the container takes values that fill the row, or a
\* single value, which it repeats over the row; for any other length the
\* assignment raises
Broadcasts(values, n) == Len(values) = n \/ Len(values) = 1

BroadcastTo(values, n) ==
  IF Len(values) = n THEN values ELSE Filled(n, values[1])

\* (the value array is created on every call, whether or not it exists)
put_element_variable_values_recreate(blockId, name, step, values) ==
  LET c == Call("put_element_variable_values",
                [id |-> blockId, name |-> name, step |-> step, values |-> values])
      num_elem_name == N1("num_el_in_blk", blockId)
  IN
  /\ Ready
  /\ IF StepCheck(step) # Ok THEN Fails(c, StepCheck(step))
     ELSE IF ~(num_elem_name \in DOMAIN dimensions)
       THEN Fails(c, AssertionError("Block id %i not found."))
     ELSE IF N("name_elem_var") \notin DOMAIN variables
       THEN Fails(c, Raise("KeyError", "name_elem_var"))
     ELSE IF ListIndex(get_element_variable_names, name) = -1
       THEN Fails(c, NotInList)
     ELSE LET idx == ListIndex(get_element_variable_names, name) + 1
              variable_name == N2("vals_elem_var", idx, blockId)
              fresh == Zeros2(dimensions[N("time_step")],
                              dimensions[num_elem_name])
              created ==
                Put(variables, variable_name, fresh)
          IN  IF ~Broadcasts(values, dimensions[num_elem_name])
              THEN /\ call' = c
                   /\ outcome' = Raise("TypeError", "Can't broadcast")
                   /\ variables' = created
                   /\ UNCHANGED <<dimensions, closed, closeCalls, pc, loop>>
              ELSE Returns(c, dimensions,
                           Put(created, variable_name,
                               SetAt(created[variable_name], step - 1,
                                     BroadcastTo(values,
                                                 dimensions[num_elem_name]))))

put_element_variable_values(blockId, name, step, values) ==
  LET c == Call("put_element_variable_values",
                [id |-> blockId, name |-> name, step |-> step, values |-> values])
      num_elem_name == N1("num_el_in_blk", blockId)
  IN
  /\ Ready
  /\ IF StepCheck(step) # Ok THEN Fails(c, StepCheck(step))
     ELSE IF ~(num_elem_name \in DOMAIN dimensions)
       THEN Fails(c, AssertionError("Block id %i not found."))
     ELSE IF N("name_elem_var") \notin DOMAIN variables
       THEN Fails(c, Raise("KeyError", "name_elem_var"))
     ELSE IF ListIndex(get_element_variable_names, name) = -1
       THEN Fails(c, NotInList)
     ELSE LET idx == ListIndex(get_element_variable_names, name) + 1
              variable_name == N2("vals_elem_var", idx, blockId)
              fresh == Zeros2(dimensions[N("time_step")],
                              dimensions[num_elem_name])
              created ==
                IF variable_name \notin DOMAIN variables
                THEN Put(variables, variable_name, fresh)
                ELSE variables
          IN  IF ~Broadcasts(values, dimensions[num_elem_name])
              THEN /\ call' = c
                   /\ outcome' = Raise("TypeError", "Can't broadcast")
                   /\ variables' = created
                   /\ UNCHANGED <<dimensions, closed, closeCalls, pc, loop>>
              ELSE Returns(c, dimensions,
                           Put(created, variable_name,
                               SetAt(created[variable_name], step - 1,
                                     BroadcastTo(values,
                                                 dimensions[num_elem_name]))))

(***************************************************************************)
(* Node variables.                                                         *)
(***************************************************************************)
NodeValueArrays(number, dims) ==
  [k \in {N1("vals_nod_var", i + 1) : i \in 0..(number - 1)} |->
     Zeros2(dims[N("time_step")], dims[N("num_nodes")])]

set_node_variable_number(number) ==
  LET c == Call("set_node_variable_number", [number |-> number])
      arrays == NodeValueArrays(number, dimensions)
      named == Put(variables, N("name_nod_var"),
                   Zeros2(number, dimensions[N("len_name")]))
  IN
  /\ Ready
  /\ N("num_nod_var") \notin DOMAIN dimensions
  /\ IF number = 0 THEN Returns(c, dimensions, variables)
     ELSE Returns(c, Put(dimensions, N("num_nod_var"), number),
                  [k \in DOMAIN named \cup DOMAIN arrays |->
                     IF k \in DOMAIN arrays THEN arrays[k] ELSE named[k]])

put_node_variable_name(name, index) ==
  LET c == Call("put_node_variable_name", [name |-> name, index |-> index])
  IN
  /\ Ready
  /\ Len(name) <= LenName
  /\ IF N("num_nod_var") \notin DOMAIN dimensions
       THEN Fails(c, Raise("KeyError", "num_nod_var"))
     ELSE IF ~(index <= dimensions[N("num_nod_var")])
       THEN Fails(c, AssertionError(""))
     ELSE PutName(c, N("name_nod_var"))

get_node_variable_names == DecodeNames(variables[N("name_nod_var")])

put_node_variable_values(name, step, values) ==
  LET c == Call("put_node_variable_values",
                [name |-> name, step |-> step, values |-> values])
  IN
  /\ Ready
  /\ IF StepCheck(step) # Ok THEN Fails(c, StepCheck(step))
     ELSE IF N("name_nod_var") \notin DOMAIN variables
       THEN Fails(c, Raise("KeyError", "name_nod_var"))
     ELSE IF ListIndex(get_node_variable_names, name) = -1
       THEN Fails(c, NotInList)
     ELSE LET idx == ListIndex(get_node_variable_names, name) + 1
              d_name == N1("vals_nod_var", idx)
          IN  /\ Len(values) = dimensions[N("num_nodes")]
              /\ Returns(c, dimensions,
                         Put(variables, d_name,
                             SetAt(variables[d_name], step - 1, values)))

(***************************************************************************)
(* Side sets.  The arrays passed to put_side_set have the length of the    *)
(* side set's arrays.                                                      *)
(***************************************************************************)
\* len(_t[_t > 0])
\* a count that is one too large: the first slot would be skipped
CountPositive_plus_one(a) == Cardinality({i \in DOMAIN a : a[i] > 0}) + 1

CountPositive(a) == Cardinality({i \in DOMAIN a : a[i] > 0})

\* np.argwhere(_idx == id)[0][0]: the 0-based position of the first match
FirstMatch(a, id) ==
  (CHOOSE i \in DOMAIN a : a[i] = id /\ \A j \in 1..(i - 1) : a[j] # id) - 1

put_side_set_params(id, numSetSides, numSetDistFacts) ==
  LET c == Call("put_side_set_params",
                [id |-> id, numSetSides |-> numSetSides,
                 numSetDistFacts |-> numSetDistFacts])
  IN
  /\ Ready
  /\ IF ~(numSetDistFacts = 0)
       THEN Fails(c, AssertionError("Only 0 is currently supported."))
     ELSE IF N("ss_prop1") \notin DOMAIN variables
       THEN Fails(c, Raise("KeyError", "ss_prop1"))
     ELSE IF ~(~Contains(variables[N("ss_prop1")], id))
       THEN Fails(c, AssertionError("Side set id %i already exists."))
     ELSE IF ~(CountPositive(variables[N("ss_status")])
                 < dimensions[N("num_side_sets")])
       THEN Fails(c, AssertionError("Maximum number of side sets reached."))
     ELSE
       LET idx == CountPositive(variables[N("ss_status")]) + 1
           dim_name == N1("num_side_ss", idx)
           v1 == Put(Put(variables, N1("elem_ss", idx), Zeros(numSetSides)),
                     N1("side_ss", idx), Zeros(numSetSides))
           v2 == Put(v1, N("ss_status"), [v1[N("ss_status")] EXCEPT ![idx] = 1])
           v3 == Put(v2, N("ss_prop1"), [v2[N("ss_prop1")] EXCEPT ![idx] = id])
       IN  IF dim_name \in DOMAIN dimensions
           THEN Fails(c, Raise("ValueError", "dimension already exists"))
           ELSE Returns(c, Put(dimensions, dim_name, numSetSides), v3)

put_side_set(id, sideSetElements, sideSetSides) ==
  LET c == Call("put_side_set",
                [id |-> id, sideSetElements |-> sideSetElements,
                 sideSetSides |-> sideSetSides])
  IN
  /\ Ready
  /\ IF N("ss_prop1") \notin DOMAIN variables
       THEN Fails(c, Raise("KeyError", "ss_prop1"))
     ELSE IF ~Contains(variables[N("ss_prop1")], id)
       THEN Fails(c, AssertionError("Could not find side set with id %i."))
     ELSE
       LET idx == FirstMatch(variables[N("ss_prop1")], id) + 1
           elem_ss_name == N1("elem_ss", idx)
           side_ss_name == N1("side_ss", idx)
       IN  IF elem_ss_name \notin DOMAIN variables
           THEN Fails(c, Raise("KeyError", "elem_ss%i"))
           ELSE /\ Len(sideSetElements) = Len(variables[elem_ss_name])
                /\ Len(sideSetSides) = Len(variables[side_ss_name])
                /\ Returns(c, dimensions,
                           Put(Put(variables, elem_ss_name, sideSetElements),
                               side_ss_name, sideSetSides))

put_side_set_name(id, name) ==
  LET c == Call("put_side_set_name", [id |-> id, name |-> name])
  IN
  /\ Ready
  /\ Len(name) <= LenName
  /\ IF N("ss_prop1") \notin DOMAIN variables
       THEN Fails(c, Raise("KeyError", "ss_prop1"))
     ELSE IF ~Contains(variables[N("ss_prop1")], id)
       THEN Fails(c, AssertionError("Could not find side set with id %i."))
     ELSE
       LET idx == FirstMatch(variables[N("ss_prop1")], id) + 1
       IN  Returns(c, dimensions,
                   Put(variables, N("ss_names"),
                       WriteName(variables[N("ss_names")], idx - 1, name)))

(***************************************************************************)
(* exodus.put_info_records                                                 *)
(***************************************************************************)
\* ir[idx] = b"" ; ir[idx, :len(value)] = the characters of the record
InfoRows(info, len_line) ==
  [r \in DOMAIN info |->
     [j \in 1..len_line |-> IF j <= Len(info[r]) THEN info[r][j] ELSE 0]]

put_info_records(info) ==
  LET c == Call("put_info_records", [values |-> info])
  IN
  /\ Ready
  /\ IF info = <<>> THEN Returns(c, dimensions, variables)
     ELSE IF \E r \in DOMAIN info : ~(Len(info[r]) < dimensions[N("len_line")])
       THEN Fails(c, AssertionError("Records '%s' is longer then %i letters."))
     ELSE IF N("num_info") \in DOMAIN dimensions
       THEN Fails(c, Raise("ValueError", "dimension already exists"))
     ELSE Returns(c, Put(dimensions, N("num_info"), Len(info)),
                  Put(variables, N("info_records"),
                      InfoRows(info, dimensions[N("len_line")])))

(***************************************************************************)
(* exodus.put_coords                                                       *)
(***************************************************************************)
put_coords(xCoords, yCoords, zCoords) ==
  LET c == Call("put_coords", [values |-> <<xCoords, yCoords, zCoords>>])
  IN
  /\ Ready
  /\ \A a \in {xCoords, yCoords, zCoords} : Len(a) = dimensions[N("num_nodes")]
  /\ IF \E k \in {N("coordx"), N("coordy"), N("coordz")} : k \notin DOMAIN variables
       THEN Fails(c, Raise("KeyError", "coord"))
     ELSE Returns(c, dimensions,
                  Put(Put(Put(variables, N("coordx"), xCoords),
                          N("coordy"), yCoords),
                      N("coordz"), zCoords))

(***************************************************************************)
(* exodus.close, exodus.__del__ and exodus.__exit__                        *)
(*                                                                         *)
(* self._f.close() releases the handle.  On a handle already released the  *)
(* container either does nothing or raises; both are taken.                *)
(***************************************************************************)
ContainerClose(isClosed) == IF isClosed THEN {"returns", "raises"} ELSE {"returns"}

\* (mutant of TryClose: the exception of the container is not caught)
TryClose_uncaught(result) ==
  IF result = "raises" THEN Raise("Exception", "closed file") ELSE Ok

\* try: self._f.close()  except: pass
TryClose(result) == Ok

Closing(op) ==
  /\ pc = "idle"
  /\ closeCalls < MaxCloseCalls
  /\ \E result \in ContainerClose(closed) :
       /\ outcome' = TryClose(result)
       /\ closed' = TRUE
  /\ call' = Call(op, << >>)
  /\ closeCalls' = closeCalls + 1
  /\ UNCHANGED <<dimensions, variables, pc, loop>>

close == Closing("close")

__del__ == Closing("__del__")

\* self.__del__()
__exit__ == Closing("__exit__")

(***************************************************************************)
(* Quantities read off the file.                                           *)
(***************************************************************************)
eb_status == variables[N("eb_status")]
eb_prop1 == variables[N("eb_prop1")]
ss_status == variables[N("ss_status")]
ss_prop1 == variables[N("ss_prop1")]

\* the slots for which put_elem_blk_info declared dimensions: one per call
\* that returned
BlockSlots == {i \in 1..Len(eb_status) : N1("num_el_in_blk", i) \in DOMAIN dimensions}
SideSetSlots ==
  IF N("ss_status") \in DOMAIN variables
  THEN {i \in 1..Len(ss_status) : N1("num_side_ss", i) \in DOMAIN dimensions}
  ELSE {}

Ramp(n) == [i \in 1..n |-> i]

(***************************************************************************)
(* Spec: the entity allocator, on files of every block and side-set        *)
(* capacity up to the bounds, with the one-shot connectivity write.        *)
(***************************************************************************)
Init ==
  \E b \in 1..MaxBlocks, s \in 0..MaxSideSets : Created(3, NumNodes, NumElems, b, s)

BlockIds == {100, 1, -1}
SideSetIds == {5, 0, -1}

AllocateBlock ==
  \E id \in BlockIds, ne \in {1, NumElems + 1}, na \in {0, 1} :
    put_elem_blk_info(id, ne, 4, na)

AllocateSideSet ==
  \E id \in SideSetIds, df \in {0, 1} : put_side_set_params(id, 1, df)

WriteConnectivity ==
  \E id \in BlockIds, n \in {4, 5} : put_elem_connectivity(id, Ramp(n), 0, 0, 4)

Next == AllocateBlock \/ AllocateSideSet \/ WriteConnectivity

Spec == Init /\ [][Next]_vars

(***************************************************************************)
(* C1: for every block capacity C >= 1 the k-th put_elem_blk_info call     *)
(* that returns claims slot k (eb_status[k-1] goes from 0 to 1 and         *)
(* eb_prop1[k-1] becomes the id passed), and an otherwise valid call made  *)
(* after C calls returned fails on the assert "All element blocks already  *)
(* set." and changes nothing.                                              *)
(***************************************************************************)
C1_BlocksClaimSlotsInCallOrder ==
  [][(/\ call'.op = "put_elem_blk_info"
      /\ call'.numElems <= dimensions[N("num_elem")]
      /\ call'.numAttrsPerElem = 0)
     => LET k == Cardinality(BlockSlots) + 1
        IN  IF k <= dimensions[N("num_el_blk")]
            THEN /\ outcome' = Ok
                 /\ eb_status[k] = 0
                 /\ eb_status'[k] = 1
                 /\ eb_prop1'[k] = call'.id
                 /\ N1("num_el_in_blk", k) \in DOMAIN dimensions'
                 /\ N1("connect", k) \in DOMAIN variables'
            ELSE /\ outcome' = AssertionError("All element blocks already set.")
                 /\ UNCHANGED <<dimensions, variables>>]_vars

C1_Witness ==
  /\ call.op = "put_elem_blk_info"
  /\ outcome = AssertionError("All element blocks already set.")
  /\ dimensions[N("num_el_blk")] >= 2
  /\ BlockSlots = 1..dimensions[N("num_el_blk")]
  /\ \A i \in BlockSlots : eb_status[i] = 1 /\ eb_prop1[i] \in BlockIds

(***************************************************************************)
(* C2: put_elem_connectivity is addressed by the id given to               *)
(* put_elem_blk_info: when a block was allocated with external id E and    *)
(* claimed slot s, put_elem_connectivity(E, array) with an array of        *)
(* (elements x nodes per element) entries returns and stores the array in  *)
(* connect{s}.                                                             *)
(***************************************************************************)
\* the slot claimed by the (first) block allocated with external id E
SlotOfBlock(E) ==
  CHOOSE s \in BlockSlots : eb_prop1[s] = E /\ \A t \in BlockSlots : eb_prop1[t] = E => s <= t

C2_ConnectivityAddressedByExternalId ==
  (/\ call.op = "put_elem_connectivity"
   /\ \E s \in BlockSlots : eb_prop1[s] = call.id
   /\ Len(call.connectivity) =
        dimensions[N1("num_el_in_blk", SlotOfBlock(call.id))]
          * dimensions[N1("num_nod_per_el", SlotOfBlock(call.id))])
  => /\ outcome = Ok
     /\ variables[N1("connect", SlotOfBlock(call.id))] =
          Reshape(call.connectivity,
                  dimensions[N1("num_el_in_blk", SlotOfBlock(call.id))],
                  dimensions[N1("num_nod_per_el", SlotOfBlock(call.id))])

(***************************************************************************)
(* C3: put_side_set_params with an id that already appears in ss_prop1     *)
(* fails on an assert, whether or not free side-set slots remain, and      *)
(* leaves ss_status, ss_prop1 and the declared dimensions unchanged.       *)
(***************************************************************************)
C3_DuplicateSideSetIdRejected ==
  [][(/\ call'.op = "put_side_set_params"
      /\ N("ss_prop1") \in DOMAIN variables
      /\ \E i \in 1..Len(ss_prop1) : ss_prop1[i] = call'.id)
     => /\ outcome'.exc = "AssertionError"
        /\ call'.numSetDistFacts = 0
             => outcome'.msg = "Side set id %i already exists."
        /\ UNCHANGED <<dimensions, variables>>]_vars

C3_Witness ==
  /\ call.op = "put_side_set_params"
  /\ outcome = AssertionError("Side set id %i already exists.")
  /\ \E i \in SideSetSlots : ss_status[i] = 1 /\ ss_prop1[i] = call.id
  /\ \E i \in 1..Len(ss_status) : ss_status[i] = 0

(***************************************************************************)
(* C10: a put_elem_blk_info or put_side_set_params call that fails leaves  *)
(* the handle open and the dimensions and every array (the status and      *)
(* property arrays among them) as they were, so that the next allocation   *)
(* finds the same first free slot.                                         *)
(***************************************************************************)
C10_RejectedAllocationChangesNothing ==
  [][(/\ call'.op \in {"put_elem_blk_info", "put_side_set_params"}
      /\ outcome' # Ok)
     => /\ ~closed'
        /\ dimensions' = dimensions
        /\ variables' = variables]_vars

C10_Witness ==
  /\ call.op \in {"put_elem_blk_info", "put_side_set_params"}
  /\ outcome.exc = "AssertionError"
  /\ ~closed
  /\ BlockSlots # {}
  /\ SideSetSlots # {}
  /\ \E i \in 1..Len(eb_status) : eb_status[i] = 0

(***************************************************************************)
(* SpecConn: the connectivity writer on a file of one block, with every    *)
(* index shift, byte budget and entry size of the sets below.              *)
(***************************************************************************)
InitConn == Created(3, NumNodes, NumElems, 1, 0)

ChunkBudgets == {-8, 4, 8, 16, 24, 128}

ConnAllocate == \E ne \in {1, NumElems} : put_elem_blk_info(1, ne, 2, 0)

ConnWrite ==
  \E n \in {2, 2 * NumElems, 2 * NumElems + 1}, shift \in {0, 1, -1},
     b \in ChunkBudgets, itemsize \in {4, 8} :
    put_elem_connectivity(1, Ramp(n), shift, b, itemsize)

NextConn == ConnAllocate \/ ConnWrite \/ ChunkBody \/ ChunkExit

SpecConn == InitConn /\ [][NextConn]_vars

(***************************************************************************)
(* SpecLife: creation in 2 and 3 dimensions, coordinates, time and the     *)
(* three ways of closing.                                                  *)
(***************************************************************************)
InitLife ==
  \E d \in {2, 3}, s \in {0, 1} : Created(d, NumNodes, NumElems, 1, s)

LifeCoords ==
  \E x \in {1, 2} :
    put_coords(Filled(NumNodes, x), Filled(NumNodes, x + 1), Filled(NumNodes, x + 2))

LifeTime == \E step \in {0, 1, 2} : put_time(step, 7)

LifeInfo ==
  \E info \in {<<>>, <<<<104, 105>>, <<98>>>>, <<<<97>>, <<>>>>,
                <<Filled(LenLine - 1, 98)>>, <<Filled(LenLine, 98)>>} :
    put_info_records(info)

NextLife == LifeCoords \/ LifeTime \/ LifeInfo \/ close \/ __del__ \/ __exit__

SpecLife == InitLife /\ [][NextLife]_vars

(***************************************************************************)
(* C7: a file created with d dimensions, d in {2, 3}, contains exactly d   *)
(* per-axis coordinate arrays: coordx, coordy for d = 2 and coordx,        *)
(* coordy, coordz for d = 3.                                               *)
(***************************************************************************)
CoordArrays == {k \in {N("coordx"), N("coordy"), N("coordz")} : k \in DOMAIN variables}

C7_OneCoordArrayPerDimension ==
  /\ dimensions[N("num_dim")] \in {2, 3}
  /\ CoordArrays = IF dimensions[N("num_dim")] = 2
                   THEN {N("coordx"), N("coordy")}
                   ELSE {N("coordx"), N("coordy"), N("coordz")}

(***************************************************************************)
(* C8: close, __del__ and __exit__ may be called any number of times in    *)
(* any mix: none raises, the first releases the handle, and a later one    *)
(* changes nothing in the file or the handle.                              *)
(***************************************************************************)
C8_CloseIdempotent ==
  [][call'.op \in {"close", "__del__", "__exit__"}
     => /\ outcome' = Ok
        /\ closed'
        /\ dimensions' = dimensions
        /\ variables' = variables]_vars

C8_Witness ==
  /\ call.op \in {"close", "__del__", "__exit__"}
  /\ closeCalls >= 2
  /\ closed
  /\ outcome = Ok
  /\ variables[N("coordx")] # Zeros(NumNodes)

(***************************************************************************)
(* Names used as inputs: "a", " a" (a leading blank) and a name of         *)
(* len_name characters.                                                    *)
(***************************************************************************)
NameA == <<97>>
NameBlankA == <<32, 97>>
NameB == <<98>>
NameFull == Filled(LenName, 98)

(***************************************************************************)
(* SpecNames: the three name catalogs, each declared with two slots.       *)
(***************************************************************************)
InitNames == Created(3, NumNodes, NumElems, 1, 0)

NameInputs == {NameA, NameBlankA, NameFull}

DeclareGlobal == set_global_variable_number(2)
DeclareElement == set_element_variable_number(2)
DeclareNode == set_node_variable_number(2)

NameGlobal ==
  \E name \in NameInputs, index \in 1..2 : put_global_variable_name(name, index)
NameElement ==
  \E name \in NameInputs, index \in 1..2 : put_element_variable_name(name, index)
NameNode ==
  \E name \in NameInputs, index \in 1..2 : put_node_variable_name(name, index)

NextNames ==
  DeclareGlobal \/ DeclareElement \/ DeclareNode
    \/ NameGlobal \/ NameElement \/ NameNode

SpecNames == InitNames /\ [][NextNames]_vars

(***************************************************************************)
(* C4: after a put_*_variable_name(name, i) that returned, with            *)
(* 1 <= i <= declared count and a name of at most len_name characters,     *)
(* entry i-1 of the catalog's get_*_variable_names is the name, whatever   *)
(* characters it contains.                                                 *)
(***************************************************************************)
NamesOf(op) ==
  IF op = "put_global_variable_name" THEN get_global_variable_names
  ELSE IF op = "put_element_variable_name" THEN get_element_variable_names
  ELSE get_node_variable_names

C4_NameRoundTrip ==
  (/\ call.op \in {"put_global_variable_name", "put_element_variable_name",
                   "put_node_variable_name"}
   /\ outcome = Ok
   /\ 1 <= call.index
   /\ call.index <= Len(NamesOf(call.op))
   /\ Len(call.name) <= LenName)
  => NamesOf(call.op)[call.index] = call.name

(***************************************************************************)
(* SpecValues: naming and writing values, on files that declare one of the *)
(* three catalogs (two slots) and allocate one block of two elements.      *)
(***************************************************************************)
InitValues == Created(3, NumNodes, NumElems, 1, 0)

NoCatalogYet ==
  \A d \in {N("num_glo_var"), N("num_elem_var"), N("num_nod_var")} :
    d \notin DOMAIN dimensions

ValuesDeclareGlobal == NoCatalogYet /\ set_global_variable_number(2)
ValuesDeclareElement == NoCatalogYet /\ set_element_variable_number(2)
ValuesDeclareNode == NoCatalogYet /\ set_node_variable_number(2)

ValuesAllocate == put_elem_blk_info(100, 2, 2, 0)

StoredNames == {NameA, NameBlankA}
LookedUpNames == {NameA, NameBlankA, NameB}
Steps == {0, 1, 2}

ValuesNameGlobal ==
  \E name \in StoredNames, index \in 1..2 : put_global_variable_name(name, index)
ValuesNameElement ==
  \E name \in StoredNames, index \in 1..2 : put_element_variable_name(name, index)
ValuesNameNode ==
  \E name \in StoredNames, index \in 1..2 : put_node_variable_name(name, index)

ValuesTime == \E step \in Steps : put_time(step, 7)
ValuesGlobal ==
  \E name \in LookedUpNames, step \in Steps : put_global_variable_value(name, step, 7)
ValuesElement ==
  \E blockId \in {1, 100}, name \in LookedUpNames, step \in Steps :
    put_element_variable_values(blockId, name, step, Filled(2, 7))
ValuesNode ==
  \E name \in LookedUpNames, step \in Steps :
    put_node_variable_values(name, step, Filled(NumNodes, 7))

NextValues ==
  ValuesDeclareGlobal \/ ValuesDeclareElement \/ ValuesDeclareNode
    \/ ValuesAllocate
    \/ ValuesNameGlobal \/ ValuesNameElement \/ ValuesNameNode
    \/ ValuesTime \/ ValuesGlobal \/ ValuesElement \/ ValuesNode

SpecValues == InitValues /\ [][NextValues]_vars

\* the name array a put_*_value operation looks the name up in
CatalogOf(op) ==
  IF op = "put_global_variable_value" THEN N("name_glo_var")
  ELSE IF op = "put_element_variable_values" THEN N("name_elem_var")
  ELSE N("name_nod_var")

\* the names get_*_variable_names returns for that catalog
CatalogNames(op) == DecodeNames(variables[CatalogOf(op)])

\* the value array put_*_value writes when the name is in slot i (1-based)
ValueArrayOf(c, i) ==
  IF c.op = "put_time" THEN N("time_whole")
  ELSE IF c.op = "put_global_variable_value" THEN N("vals_glo_var")
  ELSE IF c.op = "put_element_variable_values" THEN N2("vals_elem_var", i, c.id)
  ELSE N1("vals_nod_var", i)

\* row `row` of the value array holds what call c passed for slot i
RowHolds(c, row, i) ==
  IF c.op = "put_time" THEN row = c.value
  ELSE IF c.op = "put_global_variable_value" THEN row[i] = c.value
  ELSE row = c.values

\* every array but `target` is as it was, and no other array was created
OnlyArrayChanged(target) ==
  /\ dimensions' = dimensions
  /\ DOMAIN variables' = DOMAIN variables \cup {target}
  /\ \A k \in DOMAIN variables \ {target} : variables'[k] = variables[k]

(***************************************************************************)
(* C6: put_time, put_global_variable_value, put_element_variable_values    *)
(* and put_node_variable_values with step = 0 or step > time_step (1) fail *)
(* on an assert and write nothing; with step = 1, a name that              *)
(* get_*_variable_names returns and a block whose dimensions exist, they   *)
(* return and write row 0 of one value array only.                         *)
(***************************************************************************)
C6_StepBounds ==
  [][call'.op \in {"put_time", "put_global_variable_value",
                   "put_element_variable_values", "put_node_variable_values"}
     => /\ (call'.step = 0 \/ call'.step > TimeStep)
             => /\ outcome'.exc = "AssertionError"
                /\ UNCHANGED <<dimensions, variables>>
        /\ (/\ call'.step = 1
            /\ call'.op # "put_time"
                 => /\ CatalogOf(call'.op) \in DOMAIN variables
                    /\ \E i \in 1..Len(CatalogNames(call'.op)) :
                         CatalogNames(call'.op)[i] = call'.name
            /\ call'.op = "put_element_variable_values"
                 => N1("num_el_in_blk", call'.id) \in DOMAIN dimensions)
             => /\ outcome' = Ok
                /\ \E i \in (IF call'.op = "put_time" THEN {1}
                             ELSE 1..Len(CatalogNames(call'.op))) :
                     LET target == ValueArrayOf(call', i)
                     IN  /\ OnlyArrayChanged(target)
                         /\ Len(variables'[target]) = TimeStep
                         /\ RowHolds(call', variables'[target][1], i)
                         /\ \A r \in 2..Len(variables'[target]) :
                              target \in DOMAIN variables
                                /\ variables'[target][r] = variables[target][r]]_vars

\* a node value refused for its step alone: the name is in the catalog
C6_Witness ==
  /\ call.op = "put_node_variable_values"
  /\ call.step > TimeStep
  /\ outcome = AssertionError("")
  /\ N("name_nod_var") \in DOMAIN variables
  /\ \E i \in 1..Len(get_node_variable_names) : get_node_variable_names[i] = call.name
  /\ variables[N("time_whole")] = <<7>>

(***************************************************************************)
(* C9: put_*_value with a valid step (and, for element variables, a block  *)
(* whose dimensions exist) writes the value of the first slot of the       *)
(* catalog whose stored name - the characters put_*_variable_name wrote to *)
(* the slot - is exactly the name passed, and nothing else; when no slot   *)
(* stores that name it fails with ValueError (the name is not in the list) *)
(* and changes nothing: no value is written and no array is created.       *)
(***************************************************************************)
StoredNamesOf(op) ==
  [i \in DOMAIN variables[CatalogOf(op)] |-> Join(variables[CatalogOf(op)][i])]

C9_ValueGoesToFirstMatchingSlot ==
  [][(/\ call'.op \in {"put_global_variable_value", "put_element_variable_values",
                       "put_node_variable_values"}
      /\ call'.step \in 1..TimeStep
      /\ CatalogOf(call'.op) \in DOMAIN variables
      /\ call'.op = "put_element_variable_values"
           => N1("num_el_in_blk", call'.id) \in DOMAIN dimensions)
     => LET names == StoredNamesOf(call'.op)
        IN  IF \A i \in 1..Len(names) : names[i] # call'.name
            THEN /\ outcome' = Raise("ValueError", "is not in list")
                 /\ UNCHANGED <<dimensions, variables>>
            ELSE \E i \in 1..Len(names) :
                   /\ names[i] = call'.name
                   /\ \A j \in 1..(i - 1) : names[j] # call'.name
                   /\ outcome' = Ok
                   /\ OnlyArrayChanged(ValueArrayOf(call', i))
                   /\ LET new == variables'[ValueArrayOf(call', i)]
                          old == variables[ValueArrayOf(call', i)]
                      IN  IF call'.op = "put_global_variable_value"
                          THEN /\ new[call'.step][i] = call'.value
                               /\ \A j \in 1..Len(names) :
                                    j # i => new[call'.step][j] = old[call'.step][j]
                          ELSE new[call'.step] = call'.values]_vars

(***************************************************************************)
(* C11: in every reachable state the ids recorded in ss_prop1 at the       *)
(* claimed side-set slots are pairwise distinct, and the number of claimed *)
(* side-set slots does not exceed the declared capacity num_side_sets.     *)
(***************************************************************************)
ClaimedSideSets ==
  IF N("ss_status") \in DOMAIN variables
  THEN {i \in 1..Len(ss_status) : ss_status[i] = 1}
  ELSE {}

C11_SideSetIdsDistinctWithinCapacity ==
  /\ \A i, j \in ClaimedSideSets : ss_prop1[i] = ss_prop1[j] => i = j
  /\ N("num_side_sets") \in DOMAIN dimensions
       => Cardinality(ClaimedSideSets) <= dimensions[N("num_side_sets")]
  /\ N("num_side_sets") \notin DOMAIN dimensions => ClaimedSideSets = {}

\* every slot of a file of capacity >= 2 is claimed, and a further call
\* with an id already present has just been refused
C11_Witness ==
  /\ Cardinality(ClaimedSideSets) >= 2
  /\ Cardinality(ClaimedSideSets) = dimensions[N("num_side_sets")]
  /\ call.op = "put_side_set_params"
  /\ call.numSetDistFacts = 0
  /\ \E i \in ClaimedSideSets : ss_prop1[i] = call.id
  /\ outcome # Ok


(***************************************************************************)
(* C13: in every reachable state, in the block catalog and in the side-set *)
(* catalog, the status entry of a slot is 0 exactly when its property      *)
(* entry is the sentinel -1, whatever ids the caller passed (0 and -1      *)
(* included).                                                              *)
(***************************************************************************)
C13_StatusZeroIffSentinel ==
  /\ \A i \in 1..Len(eb_status) : (eb_status[i] = 0) <=> (eb_prop1[i] = -1)
  /\ N("ss_status") \in DOMAIN variables
       => \A i \in 1..Len(ss_status) : (ss_status[i] = 0) <=> (ss_prop1[i] = -1)


(***************************************************************************)
(* C14: the claimed side-set slots are always a prefix 1..k of ss_status;  *)
(* so the slot a successful put_side_set_params claims, count + 1, is the  *)
(* position of the first zero of ss_status, it was free before the call,   *)
(* and no slot claimed before the call is touched.                         *)
(***************************************************************************)
SideSetPrefix ==
  \A i \in ClaimedSideSets : \A j \in 1..i : j \in ClaimedSideSets

C14_SideSetsClaimPrefix ==
  /\ []SideSetPrefix
  /\ [][(call'.op = "put_side_set_params" /\ outcome' = Ok)
         => \E k \in 1..Len(ss_status) :
              /\ ss_status[k] = 0
              /\ \A j \in 1..(k - 1) : ss_status[j] # 0
              /\ k = Cardinality(ClaimedSideSets) + 1
              /\ ss_status' = [ss_status EXCEPT ![k] = 1]
              /\ ss_prop1' = [ss_prop1 EXCEPT ![k] = call'.id]
              /\ N1("num_side_ss", k) \notin DOMAIN dimensions
              /\ N1("num_side_ss", k) \in DOMAIN dimensions'
              /\ \A i \in ClaimedSideSets :
                   /\ ss_status'[i] = 1
                   /\ ss_prop1'[i] = ss_prop1[i]
                   /\ variables'[N1("elem_ss", i)] = variables[N1("elem_ss", i)]
                   /\ variables'[N1("side_ss", i)] = variables[N1("side_ss", i)]
    ]_vars

\* the second side set of a file has just been claimed, at slot 2
C14_Witness ==
  /\ call.op = "put_side_set_params"
  /\ outcome = Ok
  /\ ClaimedSideSets = {1, 2}
  /\ ss_prop1[2] = call.id
  /\ ss_prop1[1] # call.id


(***************************************************************************)
(* C12: get_*_variable_names returns one entry per declared slot, in slot  *)
(* order; a put_*_variable_name(name, i) with 1 <= i <= declared count     *)
(* returns, sets entry i-1 of that catalog's names (to the name itself     *)
(* when it has no blanks at its ends) and leaves every other entry, every  *)
(* other catalog and every other array as it was, so the names read back   *)
(* do not depend on the order of the put_name calls.                       *)
(***************************************************************************)
PutNameOps ==
  {"put_global_variable_name", "put_element_variable_name",
   "put_node_variable_name"}

NameArrayOf(op) ==
  IF op = "put_global_variable_name" THEN N("name_glo_var")
  ELSE IF op = "put_element_variable_name" THEN N("name_elem_var")
  ELSE N("name_nod_var")

CountOf(op) ==
  IF op = "put_global_variable_name" THEN N("num_glo_var")
  ELSE IF op = "put_element_variable_name" THEN N("num_elem_var")
  ELSE N("num_nod_var")

C12_PutNameChangesOneEntry ==
  /\ [](\A op \in PutNameOps :
          CountOf(op) \in DOMAIN dimensions
            => Len(NamesOf(op)) = dimensions[CountOf(op)])
  /\ [][(/\ call'.op \in PutNameOps
         /\ CountOf(call'.op) \in DOMAIN dimensions
         /\ 1 <= call'.index
         /\ call'.index <= dimensions[CountOf(call'.op)])
        => LET before == DecodeNames(variables[NameArrayOf(call'.op)])
               after == DecodeNames(variables'[NameArrayOf(call'.op)])
           IN  /\ outcome' = Ok
               /\ dimensions' = dimensions
               /\ DOMAIN variables' = DOMAIN variables
               /\ \A v \in DOMAIN variables :
                    v # NameArrayOf(call'.op) => variables'[v] = variables[v]
               /\ Len(after) = Len(before)
               /\ \A j \in 1..Len(before) :
                    j # call'.index => after[j] = before[j]
               /\ Strip(call'.name) = call'.name
                    => after[call'.index] = call'.name
    ]_vars

\* slot 1 of the global catalog was named after slot 2, and the element
\* catalog holds a name as well
C12_Witness ==
  /\ call.op = "put_global_variable_name"
  /\ call.index = 1
  /\ outcome = Ok
  /\ N("name_elem_var") \in DOMAIN variables
  /\ get_global_variable_names = <<NameFull, NameA>>
  /\ get_element_variable_names[2] = NameA


(***************************************************************************)
(* SpecSide: the side-set catalog of files with capacity 0..MaxSideSets:   *)
(* allocation, element/side lists and names, addressed by ids that are     *)
(* registered, unregistered, or equal to the sentinel.                     *)
(***************************************************************************)
InitSide == \E s \in 0..MaxSideSets : Created(3, NumNodes, NumElems, 1, s)

SideAllocate == \E id \in {5, 0} : put_side_set_params(id, 1, 0)
SideWrite == \E id \in {5, 0, -1} : put_side_set(id, <<3>>, <<2>>)
SideName == \E id \in {5, 0, -1}, name \in {NameA, NameB} : put_side_set_name(id, name)

NextSide == SideAllocate \/ SideWrite \/ SideName

SpecSide == InitSide /\ [][NextSide]_vars

(***************************************************************************)
(* C15: put_side_set and put_side_set_name called with an id that no       *)
(* successful put_side_set_params registered fail and write nothing, for   *)
(* every integer id (-1 while slots are still free included); called with  *)
(* a registered id they return and write only the element/side arrays, or  *)
(* the name row, of the slot whose ss_prop1 entry is that id.              *)
(***************************************************************************)
Registered(id) == \E i \in ClaimedSideSets : ss_prop1[i] = id

C15_SideSetAddressedByRegisteredId ==
  [][(call'.op \in {"put_side_set", "put_side_set_name"})
      => IF ~Registered(call'.id)
         THEN /\ outcome' # Ok
              /\ UNCHANGED <<dimensions, variables>>
         ELSE \E k \in ClaimedSideSets :
                /\ ss_prop1[k] = call'.id
                /\ outcome' = Ok
                /\ dimensions' = dimensions
                /\ DOMAIN variables' = DOMAIN variables
                /\ IF call'.op = "put_side_set"
                   THEN /\ variables'[N1("elem_ss", k)] = call'.sideSetElements
                        /\ variables'[N1("side_ss", k)] = call'.sideSetSides
                        /\ \A v \in DOMAIN variables :
                             v \notin {N1("elem_ss", k), N1("side_ss", k)}
                               => variables'[v] = variables[v]
                   ELSE /\ DecodeNames(variables'[N("ss_names")])[k] = call'.name
                        /\ \A j \in 1..Len(variables[N("ss_names")]) :
                             j # k => variables'[N("ss_names")][j]
                                        = variables[N("ss_names")][j]
                        /\ \A v \in DOMAIN variables :
                             v # N("ss_names") => variables'[v] = variables[v]
    ]_vars


(***************************************************************************)
(* C16: for every declared side-set capacity S >= 0, once S side sets are  *)
(* claimed (at once when S = 0, where the file has no side-set arrays), a  *)
(* put_side_set_params with an unused id and no distribution factors fails *)
(* with the validation error and creates no dimension and no array.        *)
(***************************************************************************)
SideSetCapacity ==
  IF N("num_side_sets") \in DOMAIN dimensions
  THEN dimensions[N("num_side_sets")] ELSE 0

C16_SideSetCapacityEnforced ==
  [][(/\ call'.op = "put_side_set_params"
      /\ call'.numSetDistFacts = 0
      /\ ~Registered(call'.id)
      /\ Cardinality(ClaimedSideSets) = SideSetCapacity)
     => /\ outcome'.exc = "AssertionError"
        /\ UNCHANGED <<dimensions, variables>>
    ]_vars


(***************************************************************************)
(* SpecElem: element variables of a file with one block of two elements    *)
(* and a catalog of two names; values of the right and of a wrong length.  *)
(***************************************************************************)
InitElem == Created(3, NumNodes, NumElems, 1, 0)

ElemDeclare == set_element_variable_number(2)
ElemAllocate == put_elem_blk_info(100, 2, 2, 0)
ElemName ==
  \E name \in {NameA, NameB}, index \in 1..2 : put_element_variable_name(name, index)
ElemValues ==
  \E blockId \in {1, 100}, name \in {NameA, NameB}, step \in {0, 1},
     values \in {Filled(2, 7), Filled(2, 8), Filled(3, 7)} :
    put_element_variable_values(blockId, name, step, values)

NextElem == ElemDeclare \/ ElemAllocate \/ ElemName \/ ElemValues

SpecElem == InitElem /\ [][NextElem]_vars

(***************************************************************************)
(* C17: element value arrays are created lazily and once. A new file has   *)
(* none; set_element_variable_number creates the name array only; the      *)
(* array of (variable slot, block) comes into being exactly in a           *)
(* put_element_variable_values call for that pair that passes the step,    *)
(* block and name checks; a later call for the pair keeps the array it     *)
(* finds: same shape, rows other than the written one untouched, and the   *)
(* whole array untouched if the call does not return.                      *)
(***************************************************************************)
ElemArrays == {v \in DOMAIN variables : v[1] = "vals_elem_var"}

PassesChecks(c) ==
  /\ c.step > 0
  /\ c.step <= dimensions[N("time_step")]
  /\ N1("num_el_in_blk", c.id) \in DOMAIN dimensions
  /\ N("name_elem_var") \in DOMAIN variables
  /\ \E i \in 1..Len(get_element_variable_names) :
       get_element_variable_names[i] = c.name

\* the array of the pair the call addresses: first slot holding the name
ElemArrayOf(c) ==
  LET i == CHOOSE i \in 1..Len(get_element_variable_names) :
             /\ get_element_variable_names[i] = c.name
             /\ \A j \in 1..(i - 1) : get_element_variable_names[j] # c.name
  IN  N2("vals_elem_var", i, c.id)

C17_ElementArraysCreatedOnFirstWrite ==
  /\ [](call.op = "__init__" => ElemArrays = {})
  /\ [][/\ call'.op = "set_element_variable_number"
          => DOMAIN variables' = DOMAIN variables \cup {N("name_elem_var")}
        /\ (call'.op = "put_element_variable_values" /\ PassesChecks(call'))
          => /\ ElemArrays' = ElemArrays \cup {ElemArrayOf(call')}
             /\ ElemArrayOf(call') \in ElemArrays
                  => LET old == variables[ElemArrayOf(call')]
                         new == variables'[ElemArrayOf(call')]
                     IN  /\ Len(new) = Len(old)
                         /\ \A r \in 1..Len(old) :
                              /\ Len(new[r]) = Len(old[r])
                              /\ (r # call'.step \/ outcome' # Ok)
                                   => new[r] = old[r]
        /\ ~(call'.op = "put_element_variable_values" /\ PassesChecks(call'))
          => ElemArrays' = ElemArrays
    ]_vars

\* a value has just been written for the variable of slot 2 in block 1:
\* its array is the only value array, the variable of slot 1 has none
C17_Witness ==
  /\ call.op = "put_element_variable_values"
  /\ outcome = Ok
  /\ call.values = Filled(2, 8)
  /\ get_element_variable_names = <<NameA, NameB>>
  /\ call.name = NameB
  /\ ElemArrays = {N2("vals_elem_var", 2, 1)}


(***************************************************************************)
(* SpecIndex: one name catalog per file, declared with one or two slots,   *)
(* named at indices inside and outside 1..count.                           *)
(***************************************************************************)
InitIndex == Created(3, NumNodes, NumElems, 1, 0)

NameIndices == {-1, 0, 1, 2, 3}

IndexDeclareGlobal == NoCatalogYet /\ \E n \in 1..2 : set_global_variable_number(n)
IndexDeclareElement == NoCatalogYet /\ \E n \in 1..2 : set_element_variable_number(n)
IndexDeclareNode == NoCatalogYet /\ \E n \in 1..2 : set_node_variable_number(n)

IndexNameGlobal ==
  \E name \in {NameA, NameB}, index \in NameIndices :
    put_global_variable_name(name, index)
IndexNameElement ==
  \E name \in {NameA, NameB}, index \in NameIndices :
    put_element_variable_name(name, index)
IndexNameNode ==
  \E name \in {NameA, NameB}, index \in NameIndices :
    put_node_variable_name(name, index)

NextIndex ==
  IndexDeclareGlobal \/ IndexDeclareElement \/ IndexDeclareNode
    \/ IndexNameGlobal \/ IndexNameElement \/ IndexNameNode

SpecIndex == InitIndex /\ [][NextIndex]_vars

(***************************************************************************)
(* C18: put_global_variable_name, put_element_variable_name and            *)
(* put_node_variable_name with an index outside 1..declared count (0,      *)
(* negative, or above the count) are rejected and leave every stored name  *)
(* as it was; index 0 in particular does not overwrite the last slot.      *)
(***************************************************************************)
C18_NameIndexOutOfRangeRejected ==
  [][(/\ call'.op \in PutNameOps
      /\ CountOf(call'.op) \in DOMAIN dimensions
      /\ (call'.index < 1 \/ call'.index > dimensions[CountOf(call'.op)]))
     => /\ outcome' # Ok
        /\ UNCHANGED <<dimensions, variables>>
    ]_vars


(***************************************************************************)
(* C20: put_elem_connectivity, called for a block whose dimensions exist   *)
(* with a flat array whose number of entries is not ne * nn, fails on its  *)
(* size assert before anything is written, with shift_indices = 0 and with *)
(* a nonzero shift_indices alike: no chunk loop is entered and the         *)
(* connectivity array is as it was.                                        *)
(***************************************************************************)
C20_WrongSizeConnectivityRejected ==
  [][(/\ pc = "idle"
      /\ call'.op = "put_elem_connectivity"
      /\ N1("num_el_in_blk", call'.id) \in DOMAIN dimensions
      /\ N1("num_nod_per_el", call'.id) \in DOMAIN dimensions
      /\ Len(call'.connectivity)
           # dimensions[N1("num_el_in_blk", call'.id)]
               * dimensions[N1("num_nod_per_el", call'.id)])
     => /\ outcome' = AssertionError("")
        /\ pc' = "idle"
        /\ UNCHANGED <<dimensions, variables>>
    ]_vars

\* a shifted write of a wrong size refused on a block whose connectivity
\* was written before
C20_Witness ==
  /\ call.op = "put_elem_connectivity"
  /\ call.shift_indices # 0
  /\ outcome = AssertionError("")
  /\ pc = "idle"
  /\ N1("num_el_in_blk", call.id) \in DOMAIN dimensions
  /\ Len(call.connectivity) > dimensions[N1("num_el_in_blk", call.id)] * 2
  /\ variables[N1("connect", call.id)][1] = <<2, 3>>


(***************************************************************************)
(* SpecAll: every operation of the class on one file with two block slots  *)
(* and one side-set slot, each with one or two inputs.                     *)
(***************************************************************************)
InitAll == Created(3, NumNodes, NumElems, 2, 1)

AllAllocateBlock == \E na \in {0, 1} : put_elem_blk_info(100, 1, 2, na)
AllAllocateSideSet == \E id \in {5, -1} : put_side_set_params(id, 1, 0)
AllConnectivity ==
  \E shift \in {0, 1} : put_elem_connectivity(1, Ramp(2), shift, 128, 4)
AllSideSet == put_side_set(5, <<3>>, <<2>>)
AllSideSetName == \E id \in {5, -1} : put_side_set_name(id, NameA)
AllCoords ==
  put_coords(Filled(NumNodes, 7), Filled(NumNodes, 7), Filled(NumNodes, 7))
AllTime == put_time(1, 7)
AllInfo == put_info_records(<<NameA>>)
AllDeclare ==
  /\ NoCatalogYet
  /\ \/ set_global_variable_number(1)
     \/ set_element_variable_number(1)
     \/ set_node_variable_number(1)
AllName ==
  \E index \in {0, 1} :
    \/ put_global_variable_name(NameA, index)
    \/ put_element_variable_name(NameA, index)
    \/ put_node_variable_name(NameA, index)
AllValue ==
  \/ put_global_variable_value(NameA, 1, 7)
  \/ put_element_variable_values(1, NameA, 1, <<7>>)
  \/ put_node_variable_values(NameA, 1, Filled(NumNodes, 7))

NextAll ==
  AllAllocateBlock \/ AllAllocateSideSet \/ AllConnectivity \/ ChunkBody
    \/ ChunkExit \/ AllSideSet \/ AllSideSetName \/ AllCoords \/ AllTime \/ AllInfo
    \/ AllDeclare \/ AllName \/ AllValue \/ close

SpecAll == InitAll /\ [][NextAll]_vars

(***************************************************************************)
(* C19: the status and property arrays eb_status, eb_prop1, ss_status and  *)
(* ss_prop1 are changed by put_elem_blk_info and put_side_set_params only. *)
(* Every step of every other operation leaves the four arrays as they      *)
(* were; an allocation that returns sets one free entry of one status      *)
(* array to 1 and stores the id at the same position of the matching       *)
(* property array, and changes nothing else in the four; a refused         *)
(* allocation changes none.  So a claimed slot is never freed and its id   *)
(* never changes.                                                          *)
(***************************************************************************)
EntityArrays ==
  [v \in {N("eb_status"), N("eb_prop1"), N("ss_status"), N("ss_prop1")}
           \cap DOMAIN variables |-> variables[v]]

ClaimsOne(status, prop, other1, other2) ==
  /\ \E k \in 1..Len(variables[status]) :
       /\ variables[status][k] = 0
       /\ variables'[status] = [variables[status] EXCEPT ![k] = 1]
       /\ variables'[prop] = [variables[prop] EXCEPT ![k] = call'.id]
  /\ \A v \in {other1, other2} \cap DOMAIN variables : variables'[v] = variables[v]

C19_OnlyAllocatorsChangeEntityArrays ==
  [][/\ DOMAIN EntityArrays' = DOMAIN EntityArrays
     /\ IF pc = "idle" /\ call'.op = "put_elem_blk_info" /\ outcome' = Ok
        THEN ClaimsOne(N("eb_status"), N("eb_prop1"), N("ss_status"), N("ss_prop1"))
        ELSE IF pc = "idle" /\ call'.op = "put_side_set_params" /\ outcome' = Ok
        THEN ClaimsOne(N("ss_status"), N("ss_prop1"), N("eb_status"), N("eb_prop1"))
        ELSE EntityArrays' = EntityArrays
     /\ \A i \in 1..Len(eb_status) :
          eb_status[i] = 1 => eb_status'[i] = 1 /\ eb_prop1'[i] = eb_prop1[i]
     /\ \A i \in ClaimedSideSets :
          ss_status'[i] = 1 /\ ss_prop1'[i] = ss_prop1[i]
    ]_vars

\* a file closed after both allocators, a shifted connectivity write, a
\* side-set name and a catalog declaration have acted
C19_Witness ==
  /\ call.op = "close"
  /\ closed
  /\ eb_status = <<1, 0>>
  /\ eb_prop1 = <<100, -1>>
  /\ ss_status = <<1>>
  /\ ss_prop1 = <<5>>
  /\ variables[N1("connect", 1)] = <<<<2, 3>>>>
  /\ DecodeNames(variables[N("ss_names")]) = <<NameA>>
  /\ N("name_glo_var") \in DOMAIN variables


(***************************************************************************)
(* SpecConnFair: SpecConn with the scheduling of the interpreter: a call   *)
(* that is inside the chunk loop keeps executing it, pass after pass.      *)
(***************************************************************************)
SpecConnFair ==
  InitConn /\ [][NextConn]_vars /\ WF_vars(ChunkBody) /\ WF_vars(ChunkExit)

(***************************************************************************)
(* C5: chunked and unchunked connectivity writes are equivalent.  A        *)
(* put_elem_connectivity call with a nonzero shift k that enters the chunk *)
(* loop, whatever its byte budget (one that covers the whole array or any  *)
(* smaller one, down to 0), returns, and when it has returned every entry  *)
(* of the block's connectivity array equals the input entry + k and each   *)
(* row was written exactly once: the stored values do not depend on the    *)
(* budget.                                                                 *)
(***************************************************************************)
ShiftedInput ==
  LET ne == dimensions[N1("num_el_in_blk", call.id)]
      nn == dimensions[N1("num_nod_per_el", call.id)]
  IN  [r \in 1..ne |->
         [c \in 1..nn |->
            call.connectivity[(r - 1) * nn + c] + call.shift_indices]]

C5_ChunkedEqualsUnchunked ==
  /\ []((/\ call.op = "put_elem_connectivity"
         /\ call.shift_indices # 0
         /\ outcome = Ok)
        => /\ variables[N1("connect", call.id)] = ShiftedInput
           /\ \A r \in 1..loop.ne : loop.written[r] = 1)
  /\ (pc = "chunking" /\ call.chunk_bytes >= 0)
       ~> (/\ pc = "idle"
           /\ call.op = "put_elem_connectivity"
           /\ call.shift_indices # 0
           /\ outcome = Ok
           /\ variables[N1("connect", call.id)] = ShiftedInput)

(***************************************************************************)
(* C21: the chunked connectivity write always terminates.  For every       *)
(* allocated block, correctly sized array, nonzero shift_indices and chunk *)
(* budget (also one so small that the rows per chunk round down to 0),     *)
(* every pass of the loop moves idx strictly forward, and the call that    *)
(* entered the loop returns, with every row 0..ne-1 written.               *)
(***************************************************************************)
C21_ChunkedWriteTerminates ==
  /\ [][(pc = "chunking" /\ pc' = "chunking") => loop'.idx > loop.idx]_vars
  /\ (pc = "chunking")
       ~> (/\ pc = "idle"
           /\ outcome = Ok
           /\ \A r \in 1..loop.ne : loop.written[r] >= 1)

====
